---- MODULE Spec2Model ----
(***************************************************************************)
(* State-machine model of the medical-record form application:             *)
(*   - FirestoreConfig.tsx : the connection-profile form (handleSave,      *)
(*                           testConnection, mount effect)                 *)
(*   - Index.tsx           : the page (tabs, record state, handleSubmit)   *)
(*   - ImageUpload         : the attachment encoder widget                 *)
(* Every asynchronous call (FileReader read, addDoc, deleteDoc) is an      *)
(* entry of an in-flight collection whose completion is a separate step.   *)
(***************************************************************************)
EXTENDS Integers, Sequences, FiniteSets, TLC

(***************************************************************************)
(* Bounds of the model.                                                    *)
(***************************************************************************)
\* asynchronous calls (reads, addDoc, deleteDoc) pending at the same time
MaxPending == 2
\* document identifiers the remote store can hand out
MaxDocs == 1

(***************************************************************************)
(* Strings.  Credential fields, the description and notice titles are TLA+ *)
(* strings; an attachment (a data URL) and the local-storage text are      *)
(* sequences of tokens, the empty sequence being the empty string.         *)
(***************************************************************************)
EmptyText == <<>>

\* FirestoreCredentials, in declaration order (JSON.stringify keeps it)
CredentialFields ==
    <<"projectId", "apiKey", "authDomain", "storageBucket",
      "messagingSenderId", "appId", "collectionName">>

FieldSet == {CredentialFields[k] : k \in 1..Len(CredentialFields)}

\* useState initial value of the credentials form
DefaultCredentials ==
    [projectId |-> "", apiKey |-> "", authDomain |-> "", storageBucket |-> "",
     messagingSenderId |-> "", appId |-> "", collectionName |-> "medical_records"]

\* useState initial value of the record
EmptyRecord == [ecg |-> EmptyText, laudo |-> EmptyText, descricao |-> ""]

\* a truthiness test that every string passes
TruthyAlways(s) == TRUE

\* JavaScript truthiness of a string (credential field, description)
Truthy(s) == s # ""

\* JavaScript truthiness of a token text (attachment)
TruthyText(t) == t # EmptyText

(***************************************************************************)
(* JSON.stringify / JSON.parse of a flat object of strings.  The text is   *)
(* "{" k1 v1 k2 v2 ... "}" as tokens; parsing fails on anything else.      *)
(***************************************************************************)
RECURSIVE Members(_, _)
Members(obj, keys) ==
    IF keys = <<>> THEN <<>>
    ELSE <<Head(keys), obj[Head(keys)]>> \o Members(obj, Tail(keys))

JSONstringify(obj) == <<"{">> \o Members(obj, CredentialFields) \o <<"}">>

JSONwellFormed(text) ==
    /\ Len(text) >= 2
    /\ text[1] = "{"
    /\ text[Len(text)] = "}"
    /\ (Len(text) - 2) % 2 = 0

\* the keys of a well-formed text, and the value of the last member with key k
JSONkeys(text) == {text[2 * j] : j \in 1..((Len(text) - 2) \div 2)}

JSONvalue(text, k) ==
    LET js == {j \in 1..((Len(text) - 2) \div 2) : text[2 * j] = k}
        last == CHOOSE j \in js : \A i \in js : i <= j
    IN  text[2 * last + 1]

JSONparse(text) == [k \in JSONkeys(text) |-> JSONvalue(text, k)]

(***************************************************************************)
(* localStorage item 'firestore_credentials': getItem gives null (has =    *)
(* FALSE) or the stored text.                                              *)
(***************************************************************************)
NoItem == [has |-> FALSE, text |-> EmptyText]
Item(text) == [has |-> TRUE, text |-> text]

\* a test of the item for null only
ItemPresent(it) == it.has

\* `if (saved)`: a non-null, non-empty string
ItemTruthy(it) == it.has /\ it.text # EmptyText

(***************************************************************************)
(* Inputs of the environment.                                              *)
(***************************************************************************)
\* what the user may type into a credentials field
TypedValues(field) ==
    IF field = "collectionName" THEN {"", "exames"}
    ELSE IF field \in {"storageBucket", "messagingSenderId", "appId"} THEN {""}
    ELSE {"", "a"}

\* what the user may type into the description
TypedDescriptions == {"", "ok"}

\* values of Date.now / new Date() seen by the handlers
Instants == {"T1"}

\* files the user may pick or drop: declared media type and byte content
\* type.startsWith('image/')
IsImageType(type) == Len(type) >= 2 /\ type[1] = "image" /\ type[2] = "/"

\* (the media type as tokens, so that startsWith('image/') is computed)
Files ==
    { [type |-> <<"image", "/", "png">>,  bytes |-> <<77, 97, 110, 33>>],
      [type |-> <<"text", "/", "plain">>, bytes |-> <<77, 97>>] }

\* file lists of a drop (only the first file is used) or of the file picker
DroppedLists == {<<>>} \cup {<<f>> : f \in Files} \cup
                {<<f, g>> : f \in Files, g \in {h \in Files : ~IsImageType(h.type)}}
PickedLists == {<<f>> : f \in Files}

\* the two ImageUpload instances, named by the record field they feed
Widgets == {"ecg", "laudo"}

(***************************************************************************)
(* State.                                                                  *)
(***************************************************************************)
VARIABLES
    mounted,      \* Index: the mount effect has run
    activeTab,    \* Index: "data" | "config"
    isConnected,  \* Index
    isSubmitting, \* Index
    record,       \* Index: MedicalRecord
    credentials,  \* FirestoreConfig: the form fields
    cfgLoading,   \* FirestoreConfig: isLoading
    encLoading,   \* ImageUpload: isLoading, per widget
    isDragging,   \* ImageUpload: isDragging, per widget
    storage,      \* localStorage item 'firestore_credentials'
    remote,       \* documents held by the remote store
    saves,        \* handleSave calls suspended in testConnection
    submits,      \* handleSubmit calls suspended in addDoc
    reads,        \* handleFileUpload calls suspended in convertToBase64
    notice        \* the toast or alert raised by the last step, if any

vars == <<mounted, activeTab, isConnected, isSubmitting, record, credentials,
          cfgLoading, encLoading, isDragging, storage, remote, saves, submits,
          reads, notice>>

pageVars   == <<mounted, isConnected, isSubmitting, record>>
configVars == <<credentials, cfgLoading>>
widgetVars == <<encLoading, isDragging>>

\* the asynchronous calls pending
Pending == Len(saves) + Len(submits) + Len(reads)

\* a sequence without its i-th element
RemoveAt(seq, i) == SubSeq(seq, 1, i - 1) \o SubSeq(seq, i + 1, Len(seq))

(***************************************************************************)
(* Notices: toast({title, description}) and alert(message).                *)
(***************************************************************************)
NoNotice == [title |-> "", description |-> <<>>]

Toast(title, description) == [title |-> title, description |-> description]

Alert(message) == [title |-> "alert", description |-> <<message>>]

(***************************************************************************)
(* Tabs: the panel of the active tab is the only one rendered, so leaving  *)
(* a tab unmounts its panel (its component state is gone, its suspended    *)
(* handlers keep running) and entering it mounts a fresh one.              *)
(***************************************************************************)
PanelMounted(tab) == mounted /\ activeTab = tab

\* FirestoreConfig: useState initial values, then the mount effect
MountCredentials(item) ==
    IF ItemTruthy(item) /\ JSONwellFormed(item.text)
    THEN JSONparse(item.text)
    ELSE DefaultCredentials

\* suspended handlers of an unmounted component: their setState calls are lost
Orphaned(calls) == [k \in 1..Len(calls) |-> [calls[k] EXCEPT !.live = FALSE]]

\* the panels after the active tab becomes newTab
RenderTab(newTab) ==
    IF newTab = activeTab
    THEN UNCHANGED <<configVars, widgetVars, saves, reads>>
    ELSE /\ credentials' = IF newTab = "config" THEN MountCredentials(storage)
                           ELSE DefaultCredentials
         /\ cfgLoading' = FALSE
         /\ saves' = Orphaned(saves)
         /\ encLoading' = [w \in Widgets |-> FALSE]
         /\ isDragging' = [w \in Widgets |-> FALSE]
         /\ reads' = Orphaned(reads)

(***************************************************************************)
(* Index: mount effect, tab trigger, handleCredentialsSave.                *)
(***************************************************************************)
\* a mount effect that shows the indicator without looking at the item
IndexMountConnected ==
    /\ ~mounted
    /\ mounted' = TRUE
    /\ isConnected' = TRUE
    /\ notice' = NoNotice
    /\ UNCHANGED <<activeTab, isSubmitting, record, configVars, widgetVars,
                   storage, remote, saves, submits, reads>>

IndexMount ==
    /\ ~mounted
    /\ mounted' = TRUE
    /\ isConnected' = (isConnected \/ ItemTruthy(storage))
    /\ notice' = NoNotice
    /\ UNCHANGED <<activeTab, isSubmitting, record, configVars, widgetVars,
                   storage, remote, saves, submits, reads>>

SetActiveTab(tab) ==
    /\ mounted
    /\ tab # activeTab
    /\ activeTab' = tab
    /\ RenderTab(tab)
    /\ notice' = NoNotice
    /\ UNCHANGED <<pageVars, storage, remote, submits>>

\* a handleCredentialsSave that leaves the indicator as it is
HandleCredentialsSaveIgnored(creds) == isConnected

\* the value of isConnected after onCredentialsSave(credentials)
HandleCredentialsSave(creds) == TRUE

(***************************************************************************)
(* The remote store: open(profile), addDoc, deleteDoc.                     *)
(***************************************************************************)
\* firebaseConfig built from a profile
FirebaseConfig(creds) ==
    [apiKey |-> creds.apiKey, authDomain |-> creds.authDomain,
     projectId |-> creds.projectId, storageBucket |-> creds.storageBucket,
     messagingSenderId |-> creds.messagingSenderId, appId |-> creds.appId]

UsedIds == {d.id : d \in remote}

\* the store can create a document while an identifier is left
CanCreate == \E id \in 1..MaxDocs : id \notin UsedIds

FreshId == CHOOSE id \in 1..MaxDocs : id \notin UsedIds /\ \A j \in 1..(id - 1) : j \in UsedIds

Document(id, config, coll, data) ==
    [id |-> id, config |-> config, coll |-> coll, data |-> data]

(***************************************************************************)
(* FirestoreConfig: handleInputChange, testConnection, handleSave.         *)
(***************************************************************************)
HandleInputChange(field, value) ==
    /\ PanelMounted("config")
    /\ credentials' = [credentials EXCEPT ![field] = value]
    /\ notice' = NoNotice
    /\ UNCHANGED <<pageVars, activeTab, cfgLoading, widgetVars, storage,
                   remote, saves, submits, reads>>

\* the required fields with authDomain forgotten
RequiredFieldsWithoutAuthDomain == <<"projectId", "apiKey", "collectionName">>

RequiredFields == <<"projectId", "apiKey", "authDomain", "collectionName">>

\* a filter that lets an empty collection name pass
MissingFieldsButCollection(creds) ==
    LET Missing(f) == f # "collectionName" /\ creds[f] = ""
    IN  SelectSeq(RequiredFields, Missing)

\* requiredFields.filter(field => !credentials[field])
MissingFields(creds) ==
    LET Missing(f) == ~Truthy(creds[f])
    IN  SelectSeq(RequiredFields, Missing)

MissingFieldsToast(missing) ==
    Toast("Campos obrigatorios", <<"Por favor, preencha:">> \o missing)

ConnectionFailedToast ==
    Toast("Erro de conexao",
          <<"Nao foi possivel conectar ao Firestore. Verifique suas credenciais.">>)

ConnectionSucceededToast ==
    Toast("Conexao bem-sucedida",
          <<"Credenciais salvas e conexao com Firestore testada com sucesso!">>)

\* the save Button: disabled={isLoading}
SaveEnabled == ~cfgLoading

\* the document testConnection adds
MarkerData(now) == [test |-> TRUE, timestamp |-> now, connectionTest |-> "success"]

\* a handleSave without its finally block
LoadingAfterSaveStuck(s) == cfgLoading

\* setIsLoading(false) of the handleSave call s, lost if its component is gone
LoadingAfterSave(s) == IF s.live THEN FALSE ELSE cfgLoading

\* handleSave with the profile stored before the test has passed
HandleSaveCatchPersisting(i) ==
    /\ notice' = ConnectionFailedToast
    /\ storage' = Item(JSONstringify(saves[i].creds))
    /\ cfgLoading' = (IF saves[i].live THEN FALSE ELSE cfgLoading)
    /\ saves' = RemoveAt(saves, i)
    /\ UNCHANGED <<pageVars, activeTab, credentials, widgetVars, submits, reads>>

\* handleSave: catch and finally of the suspended call saves[i]
HandleSaveCatch(i) ==
    /\ notice' = ConnectionFailedToast
    /\ cfgLoading' = LoadingAfterSave(saves[i])
    /\ saves' = RemoveAt(saves, i)
    /\ UNCHANGED <<pageVars, activeTab, credentials, widgetVars, storage,
                   submits, reads>>

\* setItem of the form as it is when the test returns, not as it was tested
PersistedItemFromForm(s) == Item(JSONstringify(credentials))

\* what localStorage.setItem stores for the suspended call s
PersistedItem(s) == Item(JSONstringify(s.creds))

\* handleSave: the statements after `await testConnection`, and finally
HandleSaveResume(i) ==
    /\ storage' = PersistedItem(saves[i])
    /\ isConnected' = HandleCredentialsSave(saves[i].creds)
    /\ notice' = ConnectionSucceededToast
    /\ cfgLoading' = LoadingAfterSave(saves[i])
    /\ saves' = RemoveAt(saves, i)
    /\ UNCHANGED <<mounted, isSubmitting, record, activeTab, credentials,
                   widgetVars, submits, reads>>

\* click on the save Button: validation, then testConnection up to its
\* first await (initializeApp, getFirestore, collection and addDoc issued)
HandleSave ==
    /\ PanelMounted("config")
    /\ SaveEnabled
    /\ Pending < MaxPending
    /\ LET missing == MissingFields(credentials)
       IN  IF missing # <<>>
           THEN /\ notice' = MissingFieldsToast(missing)
                /\ UNCHANGED <<pageVars, activeTab, configVars, widgetVars,
                               storage, remote, saves, submits, reads>>
           ELSE \E opened \in BOOLEAN, now \in Instants :
                  IF opened
                  THEN /\ cfgLoading' = TRUE
                       /\ saves' = Append(saves,
                              [creds |-> credentials, phase |-> "addDoc",
                               now |-> now, doc |-> 0, live |-> TRUE])
                       /\ notice' = NoNotice
                       /\ UNCHANGED <<pageVars, activeTab, credentials,
                                      widgetVars, storage, remote, submits,
                                      reads>>
                  ELSE /\ notice' = ConnectionFailedToast
                       /\ cfgLoading' = FALSE
                       /\ UNCHANGED <<pageVars, activeTab, credentials,
                                      widgetVars, storage, remote, saves,
                                      submits, reads>>

\* addDoc of the marker resolves; deleteDoc is issued
TestAddDocResolves(i) ==
    /\ i \in 1..Len(saves)
    /\ saves[i].phase = "addDoc"
    /\ CanCreate
    /\ remote' = remote \cup
         {Document(FreshId, FirebaseConfig(saves[i].creds),
                   saves[i].creds.collectionName, MarkerData(saves[i].now))}
    /\ saves' = [saves EXCEPT ![i].phase = "deleteDoc", ![i].doc = FreshId]
    /\ notice' = NoNotice
    /\ UNCHANGED <<pageVars, activeTab, configVars, widgetVars, storage,
                   submits, reads>>

\* addDoc of the marker rejects
TestAddDocRejects(i) ==
    /\ i \in 1..Len(saves)
    /\ saves[i].phase = "addDoc"
    /\ HandleSaveCatch(i)
    /\ UNCHANGED remote

\* a testConnection that returns true without deleting the marker
TestDeleteDocResolvesKeeping(i) ==
    /\ i \in 1..Len(saves)
    /\ saves[i].phase = "deleteDoc"
    /\ remote' = remote
    /\ HandleSaveResume(i)

\* deleteDoc of the marker resolves; testConnection returns true
TestDeleteDocResolves(i) ==
    /\ i \in 1..Len(saves)
    /\ saves[i].phase = "deleteDoc"
    /\ remote' = {d \in remote : d.id # saves[i].doc}
    /\ HandleSaveResume(i)

\* deleteDoc of the marker rejects
TestDeleteDocRejects(i) ==
    /\ i \in 1..Len(saves)
    /\ saves[i].phase = "deleteDoc"
    /\ HandleSaveCatch(i)
    /\ UNCHANGED remote

(***************************************************************************)
(* ImageUpload: convertToBase64 (FileReader.readAsDataURL), handlers.      *)
(***************************************************************************)
B64Alphabet ==
    <<"A","B","C","D","E","F","G","H","I","J","K","L","M","N","O","P",
      "Q","R","S","T","U","V","W","X","Y","Z","a","b","c","d","e","f",
      "g","h","i","j","k","l","m","n","o","p","q","r","s","t","u","v",
      "w","x","y","z","0","1","2","3","4","5","6","7","8","9","+","/">>

B64Char(n) == B64Alphabet[n + 1]

RECURSIVE Base64(_)
Base64(bytes) ==
    IF Len(bytes) = 0 THEN <<>>
    ELSE IF Len(bytes) = 1 THEN
        <<B64Char(bytes[1] \div 4), B64Char((bytes[1] % 4) * 16), "=", "=">>
    ELSE IF Len(bytes) = 2 THEN
        <<B64Char(bytes[1] \div 4),
          B64Char((bytes[1] % 4) * 16 + bytes[2] \div 16),
          B64Char((bytes[2] % 16) * 4), "=">>
    ELSE
        <<B64Char(bytes[1] \div 4),
          B64Char((bytes[1] % 4) * 16 + bytes[2] \div 16),
          B64Char((bytes[2] % 16) * 4 + bytes[3] \div 64),
          B64Char(bytes[3] % 64)>> \o Base64(SubSeq(bytes, 4, Len(bytes)))

\* reader.result of readAsDataURL
DataURL(file) == <<"data:">> \o file.type \o <<";base64,">> \o Base64(file.bytes)

\* a type check that lets a file without a declared type through
IsImageOrUntyped(file) == file.type = <<>> \/ IsImageType(file.type)

\* file.type.startsWith('image/')
IsImage(file) == IsImageType(file.type)

NotImageAlert == Alert("Por favor, selecione apenas arquivos de imagem.")
ReadErrorAlert == Alert("Erro ao processar a imagem. Tente novamente.")

\* the file input: rendered while the value is empty, disabled={isLoading}
PickerEnabled(w) == ~TruthyText(record[w]) /\ ~encLoading[w]

\* the clear Button: rendered while the value is not empty
ClearRendered(w) == TruthyText(record[w])

\* handleFileUpload up to its await; dragging is the widget's hover flag after
\* the calling handler
HandleFileUpload(w, file, dragging) ==
    IF ~IsImage(file)
    THEN /\ notice' = NotImageAlert
         /\ isDragging' = dragging
         /\ UNCHANGED <<pageVars, activeTab, configVars, encLoading, storage,
                        remote, saves, submits, reads>>
    ELSE /\ encLoading' = [encLoading EXCEPT ![w] = TRUE]
         /\ reads' = Append(reads, [widget |-> w, file |-> file, live |-> TRUE])
         /\ isDragging' = dragging
         /\ notice' = NoNotice
         /\ UNCHANGED <<pageVars, activeTab, configVars, storage, remote,
                        saves, submits>>

HandleDrop(w, files) ==
    /\ PanelMounted("data")
    /\ Pending < MaxPending
    /\ IF Len(files) > 0
       THEN HandleFileUpload(w, files[1], [isDragging EXCEPT ![w] = FALSE])
       ELSE /\ isDragging' = [isDragging EXCEPT ![w] = FALSE]
            /\ notice' = NoNotice
            /\ UNCHANGED <<pageVars, activeTab, configVars, encLoading,
                           storage, remote, saves, submits, reads>>

HandleFileSelect(w, files) ==
    /\ PanelMounted("data")
    /\ PickerEnabled(w)
    /\ Pending < MaxPending
    /\ IF Len(files) > 0
       THEN HandleFileUpload(w, files[1], isDragging)
       ELSE /\ notice' = NoNotice
            /\ UNCHANGED <<pageVars, activeTab, configVars, widgetVars,
                           storage, remote, saves, submits, reads>>

HandleDragOver(w) ==
    /\ PanelMounted("data")
    /\ isDragging' = [isDragging EXCEPT ![w] = TRUE]
    /\ notice' = NoNotice
    /\ UNCHANGED <<pageVars, activeTab, configVars, encLoading, storage,
                   remote, saves, submits, reads>>

\* a drag-leave that also takes the widget out of its busy state
HandleDragLeaveResetting(w) ==
    /\ PanelMounted("data")
    /\ isDragging' = [isDragging EXCEPT ![w] = FALSE]
    /\ encLoading' = [encLoading EXCEPT ![w] = FALSE]
    /\ notice' = NoNotice
    /\ UNCHANGED <<pageVars, activeTab, configVars, storage,
                   remote, saves, submits, reads>>

HandleDragLeave(w) ==
    /\ PanelMounted("data")
    /\ isDragging' = [isDragging EXCEPT ![w] = FALSE]
    /\ notice' = NoNotice
    /\ UNCHANGED <<pageVars, activeTab, configVars, encLoading, storage,
                   remote, saves, submits, reads>>

\* an updater that rebuilds the record from the empty one
OnChangeReplacing(w, value) == [EmptyRecord EXCEPT ![w] = value]

\* onChange(value) of the widget w: the setRecord updater of Index
OnChange(w, value) == [record EXCEPT ![w] = value]

\* a clear that empties the whole record
ClearImageAll(w) ==
    /\ PanelMounted("data")
    /\ ClearRendered(w)
    /\ record' = EmptyRecord
    /\ notice' = NoNotice
    /\ UNCHANGED <<mounted, isConnected, isSubmitting, activeTab, configVars,
                   widgetVars, storage, remote, saves, submits, reads>>

ClearImage(w) ==
    /\ PanelMounted("data")
    /\ ClearRendered(w)
    /\ record' = OnChange(w, EmptyText)
    /\ notice' = NoNotice
    /\ UNCHANGED <<mounted, isConnected, isSubmitting, activeTab, configVars,
                   widgetVars, storage, remote, saves, submits, reads>>

\* setIsLoading(false) of the handleFileUpload call r, lost if its widget is gone
LoadingAfterRead(r) ==
    IF r.live THEN [encLoading EXCEPT ![r.widget] = FALSE] ELSE encLoading

\* reader.onload with a result: resolve, onChange(base64), finally
ReadResolves(i) ==
    /\ i \in 1..Len(reads)
    /\ record' = OnChange(reads[i].widget, DataURL(reads[i].file))
    /\ encLoading' = LoadingAfterRead(reads[i])
    /\ reads' = RemoveAt(reads, i)
    /\ notice' = NoNotice
    /\ UNCHANGED <<mounted, isConnected, isSubmitting, activeTab, configVars,
                   isDragging, storage, remote, saves, submits>>

\* a catch that also notifies the owner with the empty string
ReadRejectsNotifying(i) ==
    /\ i \in 1..Len(reads)
    /\ notice' = ReadErrorAlert
    /\ record' = OnChange(reads[i].widget, EmptyText)
    /\ encLoading' = LoadingAfterRead(reads[i])
    /\ reads' = RemoveAt(reads, i)
    /\ UNCHANGED <<mounted, isConnected, isSubmitting, activeTab, configVars,
                   isDragging, storage, remote, saves, submits>>

\* reader.onerror, or onload without a result: reject, catch, finally
ReadRejects(i) ==
    /\ i \in 1..Len(reads)
    /\ notice' = ReadErrorAlert
    /\ encLoading' = LoadingAfterRead(reads[i])
    /\ reads' = RemoveAt(reads, i)
    /\ UNCHANGED <<pageVars, activeTab, configVars, isDragging, storage,
                   remote, saves, submits>>

(***************************************************************************)
(* Index: the description field and handleSubmit.                          *)
(***************************************************************************)
HandleDescricaoChange(value) ==
    /\ PanelMounted("data")
    /\ record' = [record EXCEPT !.descricao = value]
    /\ notice' = NoNotice
    /\ UNCHANGED <<mounted, isConnected, isSubmitting, activeTab, configVars,
                   widgetVars, storage, remote, saves, submits, reads>>

ConnectionRequiredToast ==
    Toast("Conexao necessaria",
          <<"Configure as credenciais do Firestore na aba Configuracoes">>)

RecordIncompleteToast ==
    Toast("Campos obrigatorios",
          <<"Por favor, preencha todos os campos antes de enviar">>)

SubmitFailedToast ==
    Toast("Erro ao enviar",
          <<"Ocorreu um erro ao salvar no Firestore. Verifique sua conexao e credenciais.">>)

SubmitSucceededToast(id) ==
    Toast("Dados enviados com sucesso!",
          <<"Registro medico salvo no Firestore com ID:", ToString(id)>>)

\* a submit Button that is never disabled
SubmitAlwaysEnabled == TRUE

\* the submit Button: disabled={isSubmitting}
SubmitEnabled == ~isSubmitting

\* a completeness check that forgets the description
RecordIncompleteButDescricao(rec) ==
    ~TruthyText(rec.ecg) \/ ~TruthyText(rec.laudo)

\* !record.ecg || !record.laudo || !record.descricao
RecordIncomplete(rec) ==
    ~TruthyText(rec.ecg) \/ ~TruthyText(rec.laudo) \/ ~Truthy(rec.descricao)

\* getItem gave a text that JSON.parse accepts
ProfileReadable(item) == ItemTruthy(item) /\ JSONwellFormed(item.text)

\* the document handleSubmit adds
RecordData(rec, now) ==
    [ecg |-> rec.ecg, laudo |-> rec.laudo, descricao |-> rec.descricao,
     timestamp |-> now, created_at |-> now]

\* an addDoc call on the default collection, whatever the profile names
SubmitCallDefaultCollection(item, rec, now) ==
    LET creds == JSONparse(item.text)
    IN  [config |-> FirebaseConfig(creds),
         coll |-> DefaultCredentials.collectionName,
         data |-> RecordData(rec, now)]

\* the addDoc call handleSubmit issues with the persisted profile
SubmitCall(item, rec, now) ==
    LET creds == JSONparse(item.text)
    IN  [config |-> FirebaseConfig(creds), coll |-> creds.collectionName,
         data |-> RecordData(rec, now)]

\* a handleSubmit whose form reset sits in finally
HandleSubmitCatchResetting ==
    /\ notice' = SubmitFailedToast
    /\ isSubmitting' = FALSE
    /\ record' = EmptyRecord
    /\ UNCHANGED <<mounted, isConnected, activeTab, configVars, widgetVars,
                   storage, saves, reads>>

\* handleSubmit: catch and finally
HandleSubmitCatch ==
    /\ notice' = SubmitFailedToast
    /\ isSubmitting' = FALSE
    /\ UNCHANGED <<mounted, isConnected, record, activeTab, configVars,
                   widgetVars, storage, saves, reads>>

\* a reset that keeps the description
RecordAfterSubmitKeepingDescricao ==
    [EmptyRecord EXCEPT !.descricao = record.descricao]

\* the record after a successful addDoc
RecordAfterSubmit == EmptyRecord

\* click on the submit Button: the checks, then up to the await of addDoc
HandleSubmit ==
    /\ PanelMounted("data")
    /\ SubmitEnabled
    /\ Pending < MaxPending
    /\ IF ~isConnected
       THEN /\ notice' = ConnectionRequiredToast
            /\ activeTab' = "config"
            /\ RenderTab("config")
            /\ UNCHANGED <<pageVars, storage, remote, submits>>
       ELSE IF RecordIncomplete(record)
       THEN /\ notice' = RecordIncompleteToast
            /\ UNCHANGED <<pageVars, activeTab, configVars, widgetVars, storage,
                           remote, saves, submits, reads>>
       ELSE IF ~ProfileReadable(storage)
       THEN HandleSubmitCatch /\ UNCHANGED <<remote, submits>>
       ELSE \E opened \in BOOLEAN, now \in Instants :
              IF opened
              THEN /\ isSubmitting' = TRUE
                   /\ submits' = Append(submits, SubmitCall(storage, record, now))
                   /\ notice' = NoNotice
                   /\ UNCHANGED <<mounted, isConnected, record, activeTab,
                                  configVars, widgetVars, storage, remote,
                                  saves, reads>>
              ELSE HandleSubmitCatch /\ UNCHANGED <<remote, submits>>

\* an addDoc that sends the record as the form holds it at completion
AddDocResolvesWritingForm(i) ==
    /\ i \in 1..Len(submits)
    /\ CanCreate
    /\ remote' = remote \cup
         {Document(FreshId, submits[i].config, submits[i].coll,
                   RecordData(record, submits[i].data.timestamp))}
    /\ notice' = SubmitSucceededToast(FreshId)
    /\ record' = RecordAfterSubmit
    /\ isSubmitting' = FALSE
    /\ submits' = RemoveAt(submits, i)
    /\ UNCHANGED <<mounted, isConnected, activeTab, configVars, widgetVars,
                   storage, saves, reads>>

\* addDoc of the record resolves: toast, reset, finally
AddDocResolves(i) ==
    /\ i \in 1..Len(submits)
    /\ CanCreate
    /\ remote' = remote \cup
         {Document(FreshId, submits[i].config, submits[i].coll, submits[i].data)}
    /\ notice' = SubmitSucceededToast(FreshId)
    /\ record' = RecordAfterSubmit
    /\ isSubmitting' = FALSE
    /\ submits' = RemoveAt(submits, i)
    /\ UNCHANGED <<mounted, isConnected, activeTab, configVars, widgetVars,
                   storage, saves, reads>>

\* addDoc of the record rejects
AddDocRejects(i) ==
    /\ i \in 1..Len(submits)
    /\ HandleSubmitCatch
    /\ submits' = RemoveAt(submits, i)
    /\ UNCHANGED remote

(***************************************************************************)
(* The specification.                                                      *)
(***************************************************************************)
\* a profile saved by an earlier session
EarlierProfile ==
    [projectId |-> "a", apiKey |-> "a", authDomain |-> "a", storageBucket |-> "",
     messagingSenderId |-> "", appId |-> "", collectionName |-> "exames"]

\* what the key may hold when the page loads: nothing, a profile saved
\* earlier, or a text that is not JSON
InitialItems ==
    {NoItem, Item(JSONstringify(EarlierProfile)), Item(<<"{", "projectId">>)}

Init ==
    /\ mounted = FALSE
    /\ activeTab = "data"
    /\ isConnected = FALSE
    /\ isSubmitting = FALSE
    /\ record = EmptyRecord
    /\ credentials = DefaultCredentials
    /\ cfgLoading = FALSE
    /\ encLoading = [w \in Widgets |-> FALSE]
    /\ isDragging = [w \in Widgets |-> FALSE]
    /\ storage \in InitialItems
    /\ remote = {}
    /\ saves = <<>>
    /\ submits = <<>>
    /\ reads = <<>>
    /\ notice = NoNotice

Next ==
    \/ IndexMount
    \/ \E tab \in {"data", "config"} : SetActiveTab(tab)
    \/ \E field \in FieldSet : \E value \in TypedValues(field) :
         HandleInputChange(field, value)
    \/ HandleSave
    \/ \E i \in 1..MaxPending : TestAddDocResolves(i)
    \/ \E i \in 1..MaxPending : TestAddDocRejects(i)
    \/ \E i \in 1..MaxPending : TestDeleteDocResolves(i)
    \/ \E i \in 1..MaxPending : TestDeleteDocRejects(i)
    \/ \E w \in Widgets : \E files \in DroppedLists : HandleDrop(w, files)
    \/ \E w \in Widgets : \E files \in PickedLists : HandleFileSelect(w, files)
    \/ \E w \in Widgets : HandleDragOver(w)
    \/ \E w \in Widgets : HandleDragLeave(w)
    \/ \E w \in Widgets : ClearImage(w)
    \/ \E i \in 1..MaxPending : ReadResolves(i)
    \/ \E i \in 1..MaxPending : ReadRejects(i)
    \/ \E value \in TypedDescriptions : HandleDescricaoChange(value)
    \/ HandleSubmit
    \/ \E i \in 1..MaxPending : AddDocResolves(i)
    \/ \E i \in 1..MaxPending : AddDocRejects(i)

Spec == Init /\ [][Next]_vars

\* the configuration panel alone: the record form is left untouched
SaveNext ==
    \/ IndexMount
    \/ \E tab \in {"data", "config"} : SetActiveTab(tab)
    \/ \E field \in FieldSet : \E value \in TypedValues(field) :
         HandleInputChange(field, value)
    \/ HandleSave
    \/ \E i \in 1..MaxPending : TestAddDocResolves(i)
    \/ \E i \in 1..MaxPending : TestAddDocRejects(i)
    \/ \E i \in 1..MaxPending : TestDeleteDocResolves(i)
    \/ \E i \in 1..MaxPending : TestDeleteDocRejects(i)

SaveSpec == Init /\ [][SaveNext]_vars

\* the record form alone: the stored item is the one found at load
SubmitNext ==
    \/ IndexMount
    \/ \E tab \in {"data", "config"} : SetActiveTab(tab)
    \/ \E w \in Widgets : \E files \in DroppedLists : HandleDrop(w, files)
    \/ \E w \in Widgets : \E files \in PickedLists : HandleFileSelect(w, files)
    \/ \E w \in Widgets : HandleDragOver(w)
    \/ \E w \in Widgets : HandleDragLeave(w)
    \/ \E w \in Widgets : ClearImage(w)
    \/ \E i \in 1..MaxPending : ReadResolves(i)
    \/ \E i \in 1..MaxPending : ReadRejects(i)
    \/ \E value \in TypedDescriptions : HandleDescricaoChange(value)
    \/ HandleSubmit
    \/ \E i \in 1..MaxPending : AddDocResolves(i)
    \/ \E i \in 1..MaxPending : AddDocRejects(i)

SubmitSpec == Init /\ [][SubmitNext]_vars

\* the record form on a page loaded with any content of the key, the empty
\* string included
AnyItems == InitialItems \cup {Item(EmptyText)}

LoadInit ==
    /\ mounted = FALSE
    /\ activeTab = "data"
    /\ isConnected = FALSE
    /\ isSubmitting = FALSE
    /\ record = EmptyRecord
    /\ credentials = DefaultCredentials
    /\ cfgLoading = FALSE
    /\ encLoading = [w \in Widgets |-> FALSE]
    /\ isDragging = [w \in Widgets |-> FALSE]
    /\ storage \in AnyItems
    /\ remote = {}
    /\ saves = <<>>
    /\ submits = <<>>
    /\ reads = <<>>
    /\ notice = NoNotice

LoadSpec == LoadInit /\ [][SubmitNext]_vars

\* the whole page loaded with no entry under the key
FreshInit == Init /\ storage = NoItem

FreshSpec == FreshInit /\ [][Next]_vars

\* the whole page loaded with any content of the key
AnySpec == LoadInit /\ [][Next]_vars

\* the i-th pending call of each kind settles (resolves or rejects)
ReadSettles(i) == ReadResolves(i) \/ ReadRejects(i)
SubmitSettles(i) == AddDocResolves(i) \/ AddDocRejects(i)
TestSettles(i) ==
    \/ TestAddDocResolves(i) \/ TestAddDocRejects(i)
    \/ TestDeleteDocResolves(i) \/ TestDeleteDocRejects(i)

\* every file read and every remote call eventually completes or fails
Settling ==
    \A i \in 1..MaxPending :
       /\ WF_vars(ReadSettles(i))
       /\ WF_vars(SubmitSettles(i))
       /\ WF_vars(TestSettles(i))

\* the three asynchronous handlers together: the profile is the one found at
\* load, files are dropped or picked, the description is typed
AsyncNext ==
    \/ IndexMount
    \/ \E tab \in {"data", "config"} : SetActiveTab(tab)
    \/ HandleSave
    \/ \E i \in 1..MaxPending : TestSettles(i)
    \/ \E w \in Widgets : \E files \in DroppedLists : HandleDrop(w, files)
    \/ \E w \in Widgets : \E files \in PickedLists : HandleFileSelect(w, files)
    \/ \E i \in 1..MaxPending : ReadSettles(i)
    \/ \E value \in TypedDescriptions : HandleDescricaoChange(value)
    \/ HandleSubmit
    \/ \E i \in 1..MaxPending : SubmitSettles(i)

FairSpec == Init /\ [][AsyncNext]_vars /\ Settling

\* the attachment widgets alone, with more kinds of file: a second image with
\* other content and a file without a declared media type
EncoderFiles ==
    Files \cup
    { [type |-> <<"image", "/", "jpeg">>, bytes |-> <<255, 216>>],
      [type |-> <<>>,                     bytes |-> <<77>>] }

EncoderDroppedLists ==
    {<<>>} \cup {<<f>> : f \in EncoderFiles} \cup
    {<<f, g>> : f \in {h \in EncoderFiles : ~IsImageType(h.type)},
                g \in {h \in EncoderFiles : IsImageType(h.type)}}
EncoderPickedLists == {<<f>> : f \in EncoderFiles}

EncoderNext ==
    \/ IndexMount
    \/ \E tab \in {"data", "config"} : SetActiveTab(tab)
    \/ \E w \in Widgets : \E files \in EncoderDroppedLists : HandleDrop(w, files)
    \/ \E w \in Widgets : \E files \in EncoderPickedLists :
         HandleFileSelect(w, files)
    \/ \E w \in Widgets : HandleDragOver(w)
    \/ \E w \in Widgets : HandleDragLeave(w)
    \/ \E w \in Widgets : ClearImage(w)
    \/ \E i \in 1..MaxPending : ReadResolves(i)
    \/ \E i \in 1..MaxPending : ReadRejects(i)
    \/ \E value \in TypedDescriptions : HandleDescricaoChange(value)

EncoderSpec == Init /\ [][EncoderNext]_vars

(***************************************************************************)
(* Properties of save (FirestoreConfig.handleSave).                        *)
(***************************************************************************)
RequiredSet == {"projectId", "apiKey", "authDomain", "collectionName"}

EmptyRequired(creds) == {f \in RequiredSet : creds[f] = ""}

\* a save that passed validation fails: at open (no call is left suspended),
\* at the marker write or at the marker delete
RoundTripFails ==
    \/ HandleSave /\ EmptyRequired(credentials) = {} /\ saves' = saves
    \/ \E i \in 1..Len(saves) : TestAddDocRejects(i) \/ TestDeleteDocRejects(i)

\* C1: when the test round-trip of a validated save fails at any step, the
\* stored item is what it was, isConnected is unchanged and the
\* connection-failed notice is raised.
C1_FailedRoundTripPersistsNothing ==
    [][RoundTripFails =>
         /\ storage' = storage
         /\ isConnected' = isConnected
         /\ notice' = ConnectionFailedToast]_vars

\* a round-trip failed at the delete: the marker is still in the store and
\* nothing was stored locally
C1_Witness ==
    /\ notice = ConnectionFailedToast
    /\ ~storage.has
    /\ ~isConnected
    /\ remote # {}

\* C2: a save triggered with a required field empty raises the
\* missing-fields notice listing exactly the empty required fields, issues
\* no remote call, stores nothing, does not notify the owner and does not
\* set the busy flag.
C2_ValidationBeforeIO ==
    [][(HandleSave /\ EmptyRequired(credentials) # {}) =>
         /\ notice'.title = "Campos obrigatorios"
         /\ {notice'.description[k] : k \in 2..Len(notice'.description)}
              = EmptyRequired(credentials)
         /\ Len(notice'.description) = 1 + Cardinality(EmptyRequired(credentials))
         /\ saves' = saves
         /\ remote' = remote
         /\ storage' = storage
         /\ isConnected' = isConnected
         /\ ~cfgLoading']_vars

\* the notice lists authDomain alone, nothing is pending or stored
C2_Witness ==
    /\ activeTab = "config"
    /\ notice.title = "Campos obrigatorios"
    /\ notice.description = <<"Por favor, preencha:", "authDomain">>
    /\ saves = <<>>
    /\ ~cfgLoading
    /\ ~storage.has

\* C3: when the round-trip succeeds the stored item is the JSON text of the
\* whole tested profile (seven fields, nothing of an earlier item), and
\* isConnected becomes true, whatever the form holds by then.
C3_SuccessPersistsTestedProfile ==
    [][\A i \in 1..Len(saves) : TestDeleteDocResolves(i) =>
         /\ storage'.has
         /\ JSONwellFormed(storage'.text)
         /\ JSONkeys(storage'.text) = FieldSet
         /\ \A f \in FieldSet : JSONvalue(storage'.text, f) = saves[i].creds[f]
         /\ Len(storage'.text) = 2 + 2 * Cardinality(FieldSet)
         /\ isConnected']_vars

\* a save succeeded after the collection name was blanked in the form
C3_Witness ==
    /\ notice = ConnectionSucceededToast
    /\ activeTab = "config"
    /\ isConnected
    /\ storage.has
    /\ JSONvalue(storage.text, "collectionName") = "exames"
    /\ credentials.projectId = "a"
    /\ credentials.collectionName = ""

\* the marker of the suspended call saves[i] is in the store
MarkerStored(i) ==
    \E d \in remote : d.id = saves[i].doc /\ d.data = MarkerData(saves[i].now)

\* C4: every change of the stored item is the completion of a round-trip
\* (marker written, then deleted in that step) of a profile whose four
\* required fields are non-empty; no other step writes or removes the item.
C4_StorageWrittenOnlyAfterValidation ==
    [][storage' # storage =>
         \E i \in 1..Len(saves) :
            /\ saves[i].phase = "deleteDoc"
            /\ MarkerStored(i)
            /\ \A d \in remote' : d.id # saves[i].doc
            /\ EmptyRequired(saves[i].creds) = {}
            /\ saves' = RemoveAt(saves, i)
            /\ storage'.has
            /\ JSONvalue(storage'.text, "collectionName")
                 = saves[i].creds.collectionName]_vars

\* a round-trip succeeded: the profile is stored and the marker is deleted
C4_Witness ==
    /\ storage.has
    /\ JSONwellFormed(storage.text)
    /\ JSONvalue(storage.text, "collectionName") = "exames"
    /\ notice = ConnectionSucceededToast
    /\ remote = {}

\* C5: at most one test round-trip is in flight at any time.
C5_OneRoundTripInFlight == Len(saves) <= 1

(***************************************************************************)
(* Properties of submit (Index.handleSubmit).                              *)
(***************************************************************************)
RecordHasEmptyField(rec) ==
    rec.ecg = EmptyText \/ rec.laudo = EmptyText \/ rec.descricao = ""

\* C6: a submit triggered while no item is stored raises the
\* connection-required notice, activates the configuration tab, issues no
\* remote call, leaves the record as it is and does not set isSubmitting,
\* whatever the record holds.
C6_SubmitWithoutProfileRefused ==
    [][(HandleSubmit /\ ~storage.has) =>
         /\ notice' = ConnectionRequiredToast
         /\ activeTab' = "config"
         /\ submits' = submits
         /\ remote' = remote
         /\ record' = record
         /\ ~isSubmitting']_vars

\* the refusal of a complete record
C6_Witness ==
    /\ notice = ConnectionRequiredToast
    /\ activeTab = "config"
    /\ ~storage.has
    /\ ~RecordHasEmptyField(record)
    /\ submits = <<>>

\* C7: a submit triggered with a profile active and at least one of ecg,
\* laudo, descricao empty raises the missing-fields notice, issues no remote
\* call, leaves the record and the active tab as they are and does not set
\* isSubmitting.
C7_IncompleteRecordRefused ==
    [][(HandleSubmit /\ isConnected /\ RecordHasEmptyField(record)) =>
         /\ notice' = RecordIncompleteToast
         /\ submits' = submits
         /\ remote' = remote
         /\ record' = record
         /\ activeTab' = activeTab
         /\ ~isSubmitting']_vars

\* the refusal of a record whose description alone is empty
C7_Witness ==
    /\ notice = RecordIncompleteToast
    /\ isConnected
    /\ activeTab = "data"
    /\ record.ecg # EmptyText
    /\ record.laudo # EmptyText
    /\ record.descricao = ""
    /\ submits = <<>>

\* the click of an accepted submit: one addDoc call is issued, and no other
\* is pending
SubmitIssuesOneWrite ==
    (HandleSubmit /\ submits' # submits) =>
       LET call == submits'[Len(submits')]
       IN  /\ submits = <<>>
           /\ Len(submits') = 1
           /\ isConnected /\ storage.has /\ ~RecordHasEmptyField(record)
           /\ call.coll = JSONvalue(storage.text, "collectionName")
           /\ \A f \in DOMAIN call.config :
                call.config[f] = JSONvalue(storage.text, f)
           /\ DOMAIN call.config = FieldSet \ {"collectionName"}
           /\ call.data.ecg = record.ecg
           /\ call.data.laudo = record.laudo
           /\ call.data.descricao = record.descricao
           /\ "timestamp" \in DOMAIN call.data
           /\ call.data.timestamp \in Instants
           /\ isSubmitting'
           /\ remote' = remote
           /\ record' = record

\* the completion of the write: the document is the one of the call, the
\* record is reset and the identifier is reported
WriteSuccessResetsRecord ==
    \A i \in 1..Len(submits) : AddDocResolves(i) =>
       \E d \in remote' :
          /\ d \notin remote
          /\ remote' = remote \cup {d}
          /\ d.coll = submits[i].coll
          /\ d.config = submits[i].config
          /\ d.data = submits[i].data
          /\ notice' = SubmitSucceededToast(d.id)
          /\ record' = EmptyRecord
          /\ ~isSubmitting'
          /\ submits' = <<>>

\* C8: an accepted submit issues exactly one remote write, on the
\* collection and connection of the profile stored at the click, with the
\* three record fields as they are at the click and a timestamp; when the
\* write succeeds the record is reset to empty and the new identifier is
\* reported.
C8_SuccessfulSubmit ==
    [][SubmitIssuesOneWrite /\ WriteSuccessResetsRecord]_vars

\* a record was written to the collection named by the stored profile, and
\* the form is empty again
C8_Witness ==
    /\ notice.title = "Dados enviados com sucesso!"
    /\ record = EmptyRecord
    /\ ~isSubmitting
    /\ \E d \in remote :
         /\ d.coll = "exames"
         /\ "ecg" \in DOMAIN d.data
         /\ d.data.ecg # EmptyText
         /\ d.data.descricao = "ok"

\* a submit that passed its checks fails: at the read or parse of the item or
\* at open (no call is left suspended), or at the write
SubmitFails ==
    \/ HandleSubmit /\ isConnected /\ ~RecordHasEmptyField(record)
         /\ submits' = submits
    \/ \E i \in 1..Len(submits) : AddDocRejects(i)

\* C9: when a submit that passed its checks fails, the record, the stored
\* item and isConnected are what they were, the submission-failure notice
\* is raised and isSubmitting is false.
C9_FailedSubmitLeavesState ==
    [][SubmitFails =>
         /\ record' = record
         /\ storage' = storage
         /\ isConnected' = isConnected
         /\ remote' = remote
         /\ notice' = SubmitFailedToast
         /\ ~isSubmitting']_vars

\* a write was rejected: the complete record is still in the form
C9_Witness ==
    /\ notice = SubmitFailedToast
    /\ ~RecordHasEmptyField(record)
    /\ ~isSubmitting
    /\ submits = <<>>
    /\ storage.has /\ JSONwellFormed(storage.text)

\* C10: at most one submission is in flight, and it is in flight exactly
\* while isSubmitting is true.
C10_OneSubmissionInFlight ==
    /\ Len(submits) <= 1
    /\ isSubmitting <=> (Len(submits) = 1)

\* a submission is pending while the record is edited and a read is pending
C10_Witness ==
    /\ isSubmitting
    /\ Len(submits) = 1
    /\ Len(reads) = 1
    /\ record.descricao # submits[1].data.descricao

(***************************************************************************)
(* Properties of the attachment encoder (ImageUpload).                     *)
(***************************************************************************)
\* the declared media type begins with the two tokens of 'image/'
DeclaredAsImage(file) ==
    Len(file.type) >= 2 /\ SubSeq(file.type, 1, 2) = <<"image", "/">>

\* file lists whose first file is not declared as an image
NonImageLists ==
    {files \in EncoderDroppedLists \cup EncoderPickedLists :
       Len(files) > 0 /\ ~DeclaredAsImage(files[1])}

\* C11: a file whose declared media type does not start with 'image/',
\* dropped or picked, raises the rejection message and starts no read, leaves
\* the busy flags as they were and leaves the record (old value or empty)
\* unchanged.
C11_NonImageRejected ==
    [][\A w \in Widgets : \A files \in NonImageLists :
         (HandleDrop(w, files) \/ HandleFileSelect(w, files)) =>
            /\ notice' = NotImageAlert
            /\ reads' = reads
            /\ encLoading' = encLoading
            /\ record' = record]_vars

\* a rejection while one widget shows a value and the other is empty
C11_Witness ==
    /\ notice = NotImageAlert
    /\ record.ecg # EmptyText
    /\ record.laudo = EmptyText
    /\ reads = <<>>
    /\ encLoading = [w \in Widgets |-> FALSE]

\* the reads in flight that were started by the mounted instance of widget w
LiveReads(w) == {i \in 1..Len(reads) : reads[i].widget = w /\ reads[i].live}

\* C12: while a read of a widget is in flight its busy flag is true and no
\* second read is started on the same widget, by the picker or by a drop.
C12_OneReadPerWidget ==
    \A w \in Widgets :
       /\ Cardinality(LiveReads(w)) <= 1
       /\ LiveReads(w) # {} => encLoading[w]

\* the 6-bit value of a base64 character
B64Value(c) == CHOOSE n \in 0..63 : B64Alphabet[n + 1] = c

\* the bytes a base64 text stands for
RECURSIVE Base64Decode(_)
Base64Decode(text) ==
    IF Len(text) < 4 THEN <<>>
    ELSE LET a == B64Value(text[1])
             b == B64Value(text[2])
             rest == SubSeq(text, 5, Len(text))
         IN  IF text[3] = "="
             THEN <<a * 4 + b \div 16>>
             ELSE IF text[4] = "="
             THEN <<a * 4 + b \div 16,
                    (b % 16) * 16 + B64Value(text[3]) \div 4>>
             ELSE <<a * 4 + b \div 16,
                    (b % 16) * 16 + B64Value(text[3]) \div 4,
                    (B64Value(text[3]) % 4) * 64 + B64Value(text[4])>>
                  \o Base64Decode(rest)

\* value is a data URL of the file: 'data:', the media type, ';base64,' and
\* a payload that decodes to the bytes of the file
EncodesFile(value, file) ==
    LET n == Len(file.type) IN
    /\ Len(value) >= n + 2
    /\ value[1] = "data:"
    /\ SubSeq(value, 2, n + 1) = file.type
    /\ value[n + 2] = ";base64,"
    /\ Base64Decode(SubSeq(value, n + 3, Len(value))) = file.bytes

\* C13: when the read of an accepted file succeeds, the owner's field of that
\* widget receives the encoded text of the file and nothing else changes in
\* the record; when the read fails the error message is raised and the record
\* keeps its value; either way the busy flag of the widget is false
\* afterwards.
C13_ResultDelivery ==
    [][\A i \in 1..Len(reads) :
         LET r == reads[i] IN
         /\ ReadResolves(i) =>
               /\ EncodesFile(record'[r.widget], r.file)
               /\ \A f \in DOMAIN record \ {r.widget} : record'[f] = record[f]
               /\ notice' = NoNotice
               /\ r.live => ~encLoading'[r.widget]
         /\ ReadRejects(i) =>
               /\ notice' = ReadErrorAlert
               /\ record' = record
               /\ r.live => ~encLoading'[r.widget]]_vars

\* a read failed on a page that shows an earlier value: the value is kept
C13_Witness ==
    /\ notice = ReadErrorAlert
    /\ EncodesFile(record.ecg, [type |-> <<"image", "/", "jpeg">>,
                                bytes |-> <<255, 216>>])
    /\ record.laudo = EmptyText
    /\ reads = <<>>
    /\ encLoading = [w \in Widgets |-> FALSE]

\* C14: after a clear the field of that widget is empty, whatever it held
\* and whatever is in flight, no other field of the record changes, no
\* notice is raised, and a second onChange('') on the result changes nothing.
C14_ClearEmptiesField ==
    [][\A w \in Widgets :
         ClearImage(w) =>
            /\ record'[w] = EmptyText
            /\ \A f \in DOMAIN record \ {w} : record'[f] = record[f]
            /\ notice' = NoNotice
            /\ (OnChange(w, EmptyText))' = record']_vars

\* the ECG field is empty while a read of its widget is in flight and the
\* other fields hold their values
C14_Witness ==
    /\ record.ecg = EmptyText
    /\ record.laudo # EmptyText
    /\ record.descricao = "ok"
    /\ LiveReads("ecg") # {}
    /\ encLoading["ecg"]

(***************************************************************************)
(* Properties of the page as a whole.                                      *)
(***************************************************************************)
\* the documents of the remote store that are records (not test markers)
RecordDocs(docs) == {d \in docs : "ecg" \in DOMAIN d.data}

\* C15: a submission that completes successfully writes exactly one record
\* and empties the form in the same step; a submission that is refused or
\* fails writes nothing and leaves the form; no step at all adds a record
\* without the form being emptied, and every record written has its three
\* fields filled.
C15_NoPartialRecord ==
    [][/\ \A i \in 1..Len(submits) :
            AddDocResolves(i) =>
               /\ RecordDocs(remote) \subseteq RecordDocs(remote')
               /\ Cardinality(RecordDocs(remote')) =
                    Cardinality(RecordDocs(remote)) + 1
               /\ record' = EmptyRecord
       /\ (HandleSubmit \/ \E i \in 1..Len(submits) : AddDocRejects(i)) =>
            /\ RecordDocs(remote') = RecordDocs(remote)
            /\ record' = record
       /\ RecordDocs(remote') # RecordDocs(remote) => record' = EmptyRecord
       /\ \A d \in RecordDocs(remote') :
            /\ d.data.ecg # EmptyText
            /\ d.data.laudo # EmptyText
            /\ d.data.descricao # ""]_vars

\* after a record was written, a later submission of a new complete record
\* failed: the store holds the one record and the form still holds the new one
C15_Witness ==
    /\ notice = SubmitFailedToast
    /\ Cardinality(RecordDocs(remote)) = 1
    /\ record.ecg # EmptyText
    /\ record.laudo # EmptyText
    /\ record.descricao # ""
    /\ submits = <<>>
    /\ ~isSubmitting

\* C16: provided every read and every remote call settles, each busy flag
\* that is true (isLoading of a widget, isLoading of the configuration form,
\* isSubmitting) is eventually false again.
C16_ReturnsToIdle ==
    /\ \A w \in Widgets : encLoading[w] ~> ~encLoading[w]
    /\ cfgLoading ~> ~cfgLoading
    /\ isSubmitting ~> ~isSubmitting

\* a connection test has failed and the form is idle again while a
\* submission is still in flight
C16_Witness ==
    /\ notice = ConnectionFailedToast
    /\ activeTab = "config"
    /\ ~cfgLoading
    /\ saves = <<>>
    /\ isSubmitting
    /\ Len(submits) = 1

\* C17: a change notification of a widget (an encoded file or a clear)
\* changes the field of that widget only; and when reads of both widgets are
\* in flight, after the first result is delivered the delivery of the other
\* one gives a record that holds both results and the description as it was.
C17_IndependentWidgets ==
    [][/\ \A i \in 1..Len(reads) :
            ReadResolves(i) =>
               LET r == reads[i] IN
               /\ \A f \in DOMAIN record \ {r.widget} : record'[f] = record[f]
               /\ \A j \in 1..Len(reads) :
                    reads[j].widget # r.widget =>
                       LET q == reads[j]
                           both == [record' EXCEPT ![q.widget] = DataURL(q.file)]
                       IN  /\ both[r.widget] = DataURL(r.file)
                           /\ both[q.widget] = DataURL(q.file)
                           /\ both.descricao = record.descricao
       /\ \A w \in Widgets :
            ClearImage(w) =>
               \A f \in DOMAIN record \ {w} : record'[f] = record[f]]_vars

\* both widgets hold the encoding of their own file, next to the description
C17_Witness ==
    /\ record.ecg = DataURL([type |-> <<"image", "/", "png">>,
                             bytes |-> <<77, 97, 110, 33>>])
    /\ record.laudo = DataURL([type |-> <<"image", "/", "jpeg">>,
                               bytes |-> <<255, 216>>])
    /\ record.descricao = "ok"
    /\ reads = <<>>
    /\ encLoading = [w \in Widgets |-> FALSE]

\* the marker written by the suspended call s is in the set of documents
MarkerOf(s, docs) ==
    \E d \in docs :
       /\ d.id = s.doc
       /\ d.coll = s.creds.collectionName
       /\ d.data = MarkerData(s.now)

\* C18: the marker write adds one marker to the configured collection; a
\* call is at its delete only while the marker it wrote is in the store; the
\* success notice is raised only by the resolution of a delete, and the
\* marker of that call is then gone from the store.
C18_MarkerWrittenThenDeleted ==
    [][/\ \A i \in 1..Len(saves) :
            /\ TestAddDocResolves(i) =>
                  /\ Cardinality(remote') = Cardinality(remote) + 1
                  /\ MarkerOf(saves'[i], remote' \ remote)
            /\ TestDeleteDocResolves(i) =>
                  /\ notice' = ConnectionSucceededToast
                  /\ MarkerOf(saves[i], remote)
                  /\ ~MarkerOf(saves[i], remote')
                  /\ Cardinality(remote') = Cardinality(remote) - 1
       /\ \A i \in 1..Len(saves') :
            saves'[i].phase = "deleteDoc" => MarkerOf(saves'[i], remote')
       /\ notice' = ConnectionSucceededToast =>
            \E i \in 1..Len(saves) : TestDeleteDocResolves(i)]_vars

\* a save has reported success on the configuration panel: no call is
\* pending and the store holds no document
C18_Witness ==
    /\ notice = ConnectionSucceededToast
    /\ activeTab = "config"
    /\ saves = <<>>
    /\ ~cfgLoading
    /\ remote = {}

\* the mount effect of the page starts no remote call and no read
MountIsLocal ==
    /\ remote' = remote
    /\ saves' = saves /\ submits' = submits /\ reads' = reads
    /\ saves' = <<>> /\ submits' = <<>>

dataVars == <<mounted, activeTab, isConnected, isSubmitting, record,
              credentials, cfgLoading, encLoading, storage, remote, saves,
              submits, reads>>

\* C20: a drag-over sets and a drag-leave clears the hover flag of its
\* widget; the hover flag of the other widget, the record, the busy flags,
\* local storage, the remote store and the pending calls are unchanged, and
\* no notice is raised.
C20_DragChangesHoverOnly ==
    [][\A w \in Widgets :
         /\ HandleDragOver(w) => isDragging'[w]
         /\ HandleDragLeave(w) => ~isDragging'[w]
         /\ (HandleDragOver(w) \/ HandleDragLeave(w)) =>
               /\ UNCHANGED dataVars
               /\ \A v \in Widgets \ {w} : isDragging'[v] = isDragging[v]
               /\ notice' = NoNotice]_vars

\* a file is dragged over the ECG widget while it is reading and while the
\* Laudo widget shows a value
C20_Witness ==
    /\ isDragging["ecg"]
    /\ ~isDragging["laudo"]
    /\ encLoading["ecg"]
    /\ LiveReads("ecg") # {}
    /\ record.laudo # EmptyText

\* C21 as stated: once the page has mounted, the indicator is true exactly
\* when the key has an entry.
C21_ConnectedIffEntry ==
    mounted => (isConnected <=> storage.has)

\* C21 amended: once the page has mounted, the indicator is true exactly
\* when the key has an entry that is not the empty string; so a submit that
\* is past its connection check finds a text to read.
C21_ConnectedIffNonEmptyEntry ==
    mounted => (isConnected <=> (storage.has /\ storage.text # EmptyText))

\* a profile with the default collection name has been saved since the page
\* was loaded: the indicator is on and a submission is in flight
C21_Witness ==
    /\ mounted
    /\ isConnected
    /\ storage.has
    /\ JSONwellFormed(storage.text)
    /\ JSONvalue(storage.text, "authDomain") = "a"
    /\ JSONvalue(storage.text, "collectionName") = "medical_records"
    /\ Len(submits) = 1

\* C22: on a page loaded without an entry, whatever is stored under the key
\* is a profile whose projectId, apiKey, authDomain and collectionName are
\* not empty, and every write of a record, pending or done, names a
\* collection that is not empty.
C22_StoredProfileIsValid ==
    /\ storage.has =>
         /\ JSONwellFormed(storage.text)
         /\ \A f \in {"projectId", "apiKey", "authDomain", "collectionName"} :
              JSONvalue(storage.text, f) # ""
    /\ \A i \in 1..Len(submits) : submits[i].coll # ""
    /\ \A d \in RecordDocs(remote) : d.coll # ""

\* a record was written and another submission is in flight, with a profile
\* saved in this session
C22_Witness ==
    /\ storage.has
    /\ Len(submits) = 1
    /\ submits[1].coll = "exames"
    /\ RecordDocs(remote) # {}

\* a step that edits the record: the description is typed, an attachment is
\* cleared, an encoder result is delivered
RecordEdit ==
    \/ \E value \in TypedDescriptions : HandleDescricaoChange(value)
    \/ \E w \in Widgets : ClearImage(w)
    \/ \E i \in 1..Len(reads) : ReadResolves(i)

\* the three record fields of a document or of a pending write
RecordFields(data) ==
    [ecg |-> data.ecg, laudo |-> data.laudo, descricao |-> data.descricao]

\* C23: the write issued by submit carries the record of the click; while it
\* is in flight the description can still be typed and a shown attachment
\* cleared, and no edit of the record changes the pending write; when the
\* write succeeds, the document holds the record of the click, whatever the
\* form holds by then, and the form is reset to the empty record.
C23_SubmitWritesRecordOfClick ==
    [][/\ (HandleSubmit /\ submits' # submits) =>
            RecordFields(submits'[Len(submits')].data) = record
       /\ RecordEdit => (submits' = submits /\ remote' = remote)
       /\ (isSubmitting /\ PanelMounted("data")) =>
            /\ \A value \in TypedDescriptions :
                 ENABLED HandleDescricaoChange(value)
            /\ \A w \in Widgets :
                 record[w] # EmptyText => ENABLED ClearImage(w)
       /\ \A i \in 1..Len(submits) :
            AddDocResolves(i) =>
               /\ \E d \in remote' \ remote :
                    RecordFields(d.data) = RecordFields(submits[i].data)
               /\ record' = EmptyRecord]_vars

\* a submission is in flight and, since the click, the ECG was cleared and
\* the description emptied
C23_Witness ==
    /\ isSubmitting
    /\ Len(submits) = 1
    /\ submits[1].data.ecg # EmptyText
    /\ submits[1].data.descricao = "ok"
    /\ record.ecg = EmptyText
    /\ record.descricao = ""
    /\ record.laudo = submits[1].data.laudo

====
